---------------------------- MODULE Spec2Model ----------------------------
(***************************************************************************)
(* Nimbus seal-checking block executor (pallets/author-inherent/src/exec.rs)*)
(* and pseudorandom author filter (pallets/author-slot-filter/src/lib.rs). *)
(*                                                                         *)
(* Byte strings are sequences of naturals.  A public key is one byte long  *)
(* and a signature two bytes long (signer, message hash) in place of the   *)
(* 32 and 64 bytes of the real scheme; any other length fails to decode.   *)
(***************************************************************************)
EXTENDS Integers, Sequences, FiniteSets, TLC

VARIABLES
    ratio,                  \* storage value EligibleRatio (parts of a Percent)
    potential_authors,      \* what T::PotentialAuthors::get() returns
    relay_parent_number,    \* validation_data.relay_parent_number
    entropy,                \* chain state the RandomnessSource derives from
    offered,                \* the block offered to the executor
    ret                     \* outcome of the call made by the latest step

vars == <<ratio, potential_authors, relay_parent_number, entropy, offered, ret>>

----------------------------------------------------------------------------
(* Bounds of the model *)

MaxLogs == 3            \* longest header digest
MaxAuthors == 3         \* longest list of potential authors
EntropyLen == 3         \* number of independent beacon outputs

----------------------------------------------------------------------------
(* Generic helpers *)

Range(s) == {s[i] : i \in 1..Len(s)}

SeqsUpTo(S, n) == UNION {[1..k -> S] : k \in 0..n}

Count(s, x) == Cardinality({i \in 1..Len(s) : s[i] = x})

NoCall == [op |-> "none"]

----------------------------------------------------------------------------
(* Headers, digests, signatures (exec.rs) *)

NIMBUS_ENGINE_ID == "nmbs"

Seal(id, sig) == [kind |-> "Seal", id |-> id, data |-> sig]

Consensus(id, author_id) == [kind |-> "Consensus", id |-> id, data |-> author_id]

PreRuntime(id, bytes) == [kind |-> "PreRuntime", id |-> id, data |-> bytes]

KindCode(kind) == CASE kind = "Seal" -> 5 [] kind = "Consensus" -> 4 [] OTHER -> 6

EngineCode(id) == IF id = NIMBUS_ENGINE_ID THEN 1 ELSE 2

\* The encoding of a header that its hash is taken over: the number, then each
\* digest item as variant, engine id, length-prefixed payload.
RECURSIVE EncodeLogs(_)
EncodeLogs(logs) ==
    IF Len(logs) = 0 THEN <<>>
    ELSE <<KindCode(Head(logs).kind), EngineCode(Head(logs).id), Len(Head(logs).data)>>
         \o Head(logs).data \o EncodeLogs(Tail(logs))

Encode(header) == <<header.number, Len(header.logs)>> \o EncodeLogs(header.logs)

RECURSIVE HashBytes(_, _)
HashBytes(bytes, acc) ==
    IF Len(bytes) = 0 THEN acc
    ELSE HashBytes(Tail(bytes), (acc * 31 + Head(bytes) + 1) % 65521)

\* header.hash()
hash(header) == HashBytes(Encode(header), 7)

\* NimbusPair::sign, the signature that verify accepts
Sign(signer, message) == <<signer, message>>

\* NimbusSignature::try_from(sig) succeeds
SignatureDecodes(sig) == Len(sig) = 2

\* NimbusId::from_slice(&claimed_author) succeeds
AuthorIdDecodes(author_id) == Len(author_id) = 1

\* NimbusPair::verify(sig, message, pubkey)
Verify(sig, message, pubkey) == sig = Sign(pubkey[1], message)


----------------------------------------------------------------------------
(* BlockExecutor::execute_block (exec.rs 33-97) *)

\* The panics of execute_block, by the message each carries
SealAbsent == "Seal digest is present and is last item"

HeaderUnsealed == "HeaderUnsealed"

ConsensusDigestAbsent ==
    "A single consensus digest should be added by the runtime when executing the author inherent."

SignatureUndecodable == "Bytes should convert to signature correctly"

AuthorIdUndecodable == "NimbusId::from_slice: wrong length"

SignatureInvalid == "Block signature invalid"

\* What I::execute_block may do with the block it is given
InnerOk == "inner executed"

InnerPanic == "inner panicked"

Panic(msg) == [result |-> msg, inner |-> <<>>]

\* header.digest_mut().logs.pop(): the header left behind (39-43)
pop_logs_keep(header) == header

pop_logs(header) == [header EXCEPT !.logs = SubSeq(@, 1, Len(@) - 1)]

\* the match arm of lines 48-52
is_nimbus_seal(item) == item.kind = "Seal" /\ item.id = NIMBUS_ENGINE_ID

\* the closure given to find, lines 64-69
is_nimbus_consensus(item) == item.kind = "Consensus" /\ item.id = NIMBUS_ENGINE_ID

\* .iter().find(..): the position of the first match, 0 when there is none (60-69)
consensus_digest(logs) ==
    IF \E i \in 1..Len(logs) : is_nimbus_consensus(logs[i])
    THEN CHOOSE i \in 1..Len(logs) :
            /\ is_nimbus_consensus(logs[i])
            /\ \A j \in 1..(i - 1) : ~is_nimbus_consensus(logs[j])
    ELSE 0

\* lines 81-85, once both credentials decoded
valid_signature_signer_only(sig, header, claimed_author) == sig[1] = claimed_author[1]

valid_signature(sig, header, claimed_author) ==
    Verify(sig, hash(header), claimed_author)

\* line 96
hand_off(header, extrinsics, inner_result) ==
    [result |-> inner_result,
     inner  |-> <<[header |-> header, extrinsics |-> extrinsics]>>]

\* The whole of execute_block: the panic it dies with, or the inner executor's
\* outcome together with the blocks the inner executor was given.
execute_block(block, inner_result) ==
    IF Len(block.header.logs) = 0 THEN Panic(SealAbsent)
    ELSE
    LET seal   == block.header.logs[Len(block.header.logs)]
        header == pop_logs(block.header)
    IN  IF ~is_nimbus_seal(seal) THEN Panic(HeaderUnsealed)
        ELSE
        LET sig == seal.data
            at  == consensus_digest(header.logs)
        IN  IF at = 0 THEN Panic(ConsensusDigestAbsent)
            ELSE
            LET claimed_author == header.logs[at].data
            IN  IF ~SignatureDecodes(sig) THEN Panic(SignatureUndecodable)
                ELSE IF ~AuthorIdDecodes(claimed_author) THEN Panic(AuthorIdUndecodable)
                ELSE IF ~valid_signature(sig, header, claimed_author)
                     THEN Panic(SignatureInvalid)
                ELSE hand_off(header, block.extrinsics, inner_result)

----------------------------------------------------------------------------
(* The block on offer: its author builds the digest an item at a time *)

AuthorIds == {<<1>>, <<2>>}

EmptyBlock(extrinsics) ==
    [header |-> [number |-> 1, logs |-> <<>>], extrinsics |-> extrinsics]

Bodies == {<<>>, <<"xt">>}

\* digest items that do not depend on the header they are put in
PlainItems ==
    {Consensus(NIMBUS_ENGINE_ID, a) : a \in AuthorIds \cup {<<>>}}
    \cup {PreRuntime("aura", <<9>>), Seal(NIMBUS_ENGINE_ID, Sign(1, 0))}

\* seals that may be put on a header: signed by either author over its hash,
\* signed over another message, too short to be a signature, of another engine
SealsOver(header) ==
    {Seal(NIMBUS_ENGINE_ID, Sign(a[1], hash(header))) : a \in AuthorIds}
    \cup {Seal(NIMBUS_ENGINE_ID, Sign(1, hash(header) + 1)),
          Seal(NIMBUS_ENGINE_ID, <<1>>),
          Seal("aura", Sign(1, hash(header)))}

ProposeBlock ==
    /\ \E extrinsics \in Bodies : offered' = EmptyBlock(extrinsics)
    /\ offered' # offered
    /\ ret' = NoCall
    /\ UNCHANGED <<ratio, potential_authors, relay_parent_number, entropy>>

PushDigest ==
    /\ Len(offered.header.logs) < MaxLogs
    /\ \E item \in PlainItems \cup SealsOver(offered.header) :
          offered' = [offered EXCEPT !.header.logs = Append(@, item)]
    /\ ret' = NoCall
    /\ UNCHANGED <<ratio, potential_authors, relay_parent_number, entropy>>

ExecuteBlock ==
    /\ \E inner_result \in {InnerOk, InnerPanic} :
          LET out == execute_block(offered, inner_result)
          IN  ret' = [op |-> "execute_block", result |-> out.result, inner |-> out.inner]
    /\ UNCHANGED <<ratio, potential_authors, relay_parent_number, entropy, offered>>

----------------------------------------------------------------------------
(* Percent (sp_runtime::Percent as used in lib.rs) *)

\* Percent::from_percent saturates at one hundred percent (174)
from_percent(x) == IF x > 100 THEN 100 ELSE x

\* Half, the default of the storage value (151-153)
Half == from_percent(50)

\* Percent::mul_ceil: the whole hundreds exactly, the remainder rounded up (79)
mul_floor(parts, x) == (x \div 100) * parts + ((x % 100) * parts) \div 100

mul_ceil(parts, x) ==
    LET rem_mul_upper == (x % 100) * parts
    IN  (x \div 100) * parts + (rem_mul_upper \div 100)
          + (IF rem_mul_upper % 100 > 0 THEN 1 ELSE 0)

----------------------------------------------------------------------------
(* Pallet::can_author_helper (lib.rs 76-125) *)

Accounts == {"A", "B"}

RelayHeights == {10, 267}

ByteSamples == {0, 1, 255}

RemainderByZero == "attempt to calculate the remainder with a divisor of zero"

\* EligibleRatio::<T>::get(): the value read and the storage left behind (79)
EligibleRatio_take(stored) == [value |-> stored, stored |-> Half]

EligibleRatio_get(stored) == [value |-> stored, stored |-> stored]

\* lines 89-98
subject(i, relay_height) ==
    <<102, 105, 108, 116, 101, 114, i % 256, relay_height % 256>>

\* T::RandomnessSource::random(&subject): a fixed function of the subject and
\* of the chain's entropy; the first two bytes of the H256 it returns (99)
random(subj) ==
    LET p == (subj[7] + subj[8]) % Len(entropy)
    IN  <<entropy[p + 1], entropy[((p + 1) % Len(entropy)) + 1]>>

\* line 103
index_of(randomness) == randomness[1]

\* Vec::remove(k), k counted from 0: the vector left behind (110)
remove_keep(active, k) == active

remove(active, k) == SubSeq(active, 1, k) \o SubSeq(active, k + 2, Len(active))

\* the loop of lines 82-111, from its i-th iteration on
RECURSIVE select(_, _, _, _, _)
select(active, eligible, i, num_eligible, relay_height) ==
    IF i >= num_eligible
    THEN [result |-> "Ok", eligible |-> eligible, active |-> active]
    ELSE
    LET randomness == random(subject(i, relay_height))
        index      == index_of(randomness)
    IN  IF Len(active) = 0
        THEN [result |-> RemainderByZero, eligible |-> eligible, active |-> active]
        ELSE LET k == index % Len(active)
             IN  select(remove(active, k), Append(eligible, active[k + 1]),
                        i + 1, num_eligible, relay_height)

can_author_helper(account, relay_height, stored) ==
    LET active       == potential_authors
        read         == EligibleRatio_get(stored)
        num_eligible == mul_ceil(read.value, Len(active))
        run          == select(active, <<>>, 0, num_eligible, relay_height)
    IN  [op |-> "can_author", account |-> account, num_eligible |-> num_eligible,
         result |-> run.result, eligible |-> run.eligible, active |-> run.active,
         answer |-> (run.result = "Ok" /\ account \in Range(run.eligible)),
         stored |-> read.stored]

\* CanAuthor::can_author (63-71)
CanAuthor ==
    /\ \E account \in Accounts :
          LET out == can_author_helper(account, relay_parent_number, ratio)
          IN  /\ ret' = [op |-> out.op, account |-> out.account,
                         num_eligible |-> out.num_eligible, result |-> out.result,
                         eligible |-> out.eligible, active |-> out.active,
                         answer |-> out.answer]
              /\ ratio' = out.stored
    /\ UNCHANGED <<potential_authors, relay_parent_number, entropy, offered>>

----------------------------------------------------------------------------
(* Pallet::set_eligible (lib.rs 136-142) *)

Origins == {"Root", "Signed"}

\* the parts a Percent argument may carry when it reaches the call
PercentParts == {0, 34, 50, 100, 150}

EligibleUpdated(new) == [event |-> "EligibleUpdated", value |-> new]

\* ensure_root(origin) (137)
ensure_anyone(origin) == TRUE

ensure_root(origin) == origin = "Root"

set_eligible(origin, new, stored) ==
    IF ~ensure_root(origin)
    THEN [result |-> "BadOrigin", events |-> <<>>, stored |-> stored]
    ELSE [result |-> "Ok", events |-> <<EligibleUpdated(new)>>, stored |-> new]

SetEligible ==
    /\ \E origin \in Origins, new \in PercentParts :
          LET out == set_eligible(origin, new, ratio)
          IN  /\ ret' = [op |-> "set_eligible", origin |-> origin, new |-> new,
                         result |-> out.result, events |-> out.events]
              /\ ratio' = out.stored
    /\ UNCHANGED <<potential_authors, relay_parent_number, entropy, offered>>

----------------------------------------------------------------------------
(* What the pallet reads from the rest of the runtime *)

\* T::PotentialAuthors::get() may return another list (77)
PotentialAuthorsChange ==
    /\ potential_authors' \in SeqsUpTo(Accounts, MaxAuthors) \ {potential_authors}
    /\ ret' = NoCall
    /\ UNCHANGED <<ratio, relay_parent_number, entropy, offered>>

\* the parachain inherent sets another relay parent (66-68)
RelayParentChange ==
    /\ relay_parent_number' \in RelayHeights \ {relay_parent_number}
    /\ ret' = NoCall
    /\ UNCHANGED <<ratio, potential_authors, entropy, offered>>

\* the beacon moves on (99)
EntropyChange ==
    /\ \E i \in 1..EntropyLen :
          \E byte \in ByteSamples \ {entropy[i]} :
             entropy' = [entropy EXCEPT ![i] = byte]
    /\ ret' = NoCall
    /\ UNCHANGED <<ratio, potential_authors, relay_parent_number, offered>>

----------------------------------------------------------------------------
(* Specifications.  The executor reads no pallet storage and the pallet   *)
(* reads no header, so each is checked in a specification of its own.     *)

\* GenesisBuild::build (171-175): the configured u8, 50 unless set otherwise
GenesisRatios == {50, 0, 150}

Init ==
    /\ \E eligible_ratio \in GenesisRatios : ratio = from_percent(eligible_ratio)
    /\ potential_authors = <<>>
    /\ relay_parent_number = 10
    /\ entropy = [i \in 1..EntropyLen |-> 0]
    /\ offered = EmptyBlock(<<>>)
    /\ ret = NoCall

NextFilter ==
    \/ CanAuthor
    \/ SetEligible
    \/ PotentialAuthorsChange
    \/ RelayParentChange
    \/ EntropyChange

NextExec ==
    \/ ProposeBlock
    \/ PushDigest
    \/ ExecuteBlock

SpecFilter == Init /\ [][NextFilter]_vars

SpecExec == Init /\ [][NextExec]_vars

----------------------------------------------------------------------------
(* Claims about the executor, checked under SpecExec *)

Executed == ret.op = "execute_block"

Logs == offered.header.logs

SealItems(logs) == {i \in 1..Len(logs) : logs[i].kind = "Seal"}

NimbusClaims(logs) ==
    {i \in 1..Len(logs) : logs[i].kind = "Consensus" /\ logs[i].id = NIMBUS_ENGINE_ID}

\* the digest with its last item taken off
Stripped == [number |-> offered.header.number, logs |-> SubSeq(Logs, 1, Len(Logs) - 1)]

LastIsNimbusSeal ==
    /\ Len(Logs) > 0
    /\ Logs[Len(Logs)].kind = "Seal"
    /\ Logs[Len(Logs)].id = NIMBUS_ENGINE_ID

\* the author claimed by the first nimbus consensus item left of the seal
FirstClaim ==
    Stripped.logs[CHOOSE i \in NimbusClaims(Stripped.logs) :
                    \A j \in NimbusClaims(Stripped.logs) : i <= j].data

\* seal and claim are in place and both credentials decode
CheckReachesSignature ==
    /\ LastIsNimbusSeal
    /\ NimbusClaims(Stripped.logs) # {}
    /\ Len(Logs[Len(Logs)].data) = 2
    /\ Len(FirstClaim) = 1

SealVerifies ==
    /\ CheckReachesSignature
    /\ Logs[Len(Logs)].data = <<FirstClaim[1], hash(Stripped)>>

\* C1: a digest holding no Seal item, or more than one, is rejected with the
\* seal failure and the block never reaches the inner executor.
C1_SealCountRejected ==
    (Executed /\ Cardinality(SealItems(Logs)) # 1)
        => (ret.result \in {SealAbsent, HeaderUnsealed} /\ ret.inner = <<>>)

\* a digest with a second seal ahead of the last one, handed to the inner executor
C1_Witness ==
    /\ Executed
    /\ Cardinality(SealItems(Logs)) = 2
    /\ ret.result = InnerOk
    /\ ret.inner = <<[header |-> Stripped, extrinsics |-> offered.extrinsics]>>

\* C2: once the seal is popped, a remaining digest holding no nimbus consensus
\* item, or more than one, is rejected for its author claim and the block
\* never reaches the inner executor.
C2_ClaimCountRejected ==
    (Executed /\ LastIsNimbusSeal /\ Cardinality(NimbusClaims(Stripped.logs)) # 1)
        => (ret.result = ConsensusDigestAbsent /\ ret.inner = <<>>)

\* a digest with two differing author claims, handed to the inner executor
C2_Witness ==
    /\ Executed
    /\ Cardinality(NimbusClaims(Stripped.logs)) = 2
    /\ Stripped.logs[1].data # Stripped.logs[2].data
    /\ ret.result = InnerOk
    /\ ret.inner = <<[header |-> Stripped, extrinsics |-> offered.extrinsics]>>

\* C3: a header with exactly one seal, last and tagged nmbs, and exactly one
\* nimbus author claim, sealed by the claimed author over the hash of the
\* header without its seal, is accepted: the inner executor is given, once,
\* the header less its last digest item with the body as it came.
C3_ValidBlockForwarded ==
    (/\ Executed
     /\ Cardinality(SealItems(Logs)) = 1
     /\ Cardinality(NimbusClaims(Stripped.logs)) = 1
     /\ SealVerifies)
        => /\ ret.inner = <<[header |-> Stripped, extrinsics |-> offered.extrinsics]>>
           /\ ret.result \in {InnerOk, InnerPanic}

C3_Witness ==
    /\ Executed
    /\ Cardinality(SealItems(Logs)) = 1
    /\ Cardinality(NimbusClaims(Stripped.logs)) = 1
    /\ SealVerifies
    /\ Len(Logs) = 3
    /\ offered.extrinsics # <<>>
    /\ ret.result = InnerOk
    /\ Len(ret.inner) = 1

\* C4: a seal that does not verify over the hash of the stripped header with
\* the claimed author is refused as an invalid signature, and whatever makes
\* the seal check fail, the inner executor is not given the block.
C4_BadSealNeverExecuted ==
    Executed =>
        /\ (CheckReachesSignature /\ ~SealVerifies) => ret.result = SignatureInvalid
        /\ ~SealVerifies => ret.inner = <<>>
        /\ ret.result \in {SealAbsent, HeaderUnsealed, ConsensusDigestAbsent,
                           SignatureUndecodable, AuthorIdUndecodable, SignatureInvalid}
              => ret.inner = <<>>

\* the right signer over the wrong message
C4_Witness ==
    /\ Executed
    /\ CheckReachesSignature
    /\ Logs[Len(Logs)].data[1] = FirstClaim[1]
    /\ Logs[Len(Logs)].data[2] # hash(Stripped)
    /\ ret.result = SignatureInvalid
    /\ ret.inner = <<>>

----------------------------------------------------------------------------
(* Claims about the author filter, checked under SpecFilter *)

Evaluated == ret.op = "can_author"

\* ceil(percent / 100 * n), as the least k with 100 k >= percent * n
CeilOfPercent(percent, n) ==
    CHOOSE k \in 0..(percent * n) : 100 * k >= percent * n /\ 100 * (k - 1) < percent * n

\* C5: for a ratio within 0..100 the eligible sequence has exactly
\* ceil(ratio / 100 * |candidates|) elements; none for ratio 0 or no candidates.
C5_EligibleCount ==
    (Evaluated /\ ratio <= 100)
        => /\ ret.result = "Ok"
           /\ Len(ret.eligible) = CeilOfPercent(ratio, Len(potential_authors))
           /\ (ratio = 0 \/ potential_authors = <<>>) => ret.eligible = <<>>

C5_Witness ==
    /\ Evaluated
    /\ ratio = 34
    /\ Len(potential_authors) = 3
    /\ Len(ret.eligible) = 2
    /\ Len(ret.active) = 1

\* C6: at ratio 100 the loop drains the active list and the eligible sequence
\* is a permutation of the candidates, so exactly the candidates are eligible.
C6_FullRatioPermutation ==
    (Evaluated /\ ratio = 100)
        => /\ ret.result = "Ok"
           /\ ret.active = <<>>
           /\ \A a \in Accounts : Count(ret.eligible, a) = Count(potential_authors, a)
           /\ ret.answer = (ret.account \in Range(potential_authors))

C6_Witness ==
    /\ Evaluated
    /\ ratio = 100
    /\ Len(potential_authors) = 3
    /\ Count(potential_authors, "B") = 2
    /\ ret.eligible # potential_authors
    /\ ret.active = <<>>

C8_OnlyRootSetsRatio ==
    [][/\ (ret'.op = "set_eligible" /\ ret'.origin # "Root")
            => (ret'.result = "BadOrigin" /\ ret'.events = <<>> /\ ratio' = ratio)
       /\ ratio' # ratio
            => /\ ret'.op = "set_eligible"
               /\ ret'.origin = "Root"
               /\ ret'.result = "Ok"
               /\ ret'.events = <<EligibleUpdated(ret'.new)>>
               /\ ratio' = ret'.new]_vars

C8_Witness ==
    /\ ret.op = "set_eligible"
    /\ ret.origin = "Signed"
    /\ ret.new # ratio
    /\ ret.result = "BadOrigin"
    /\ ret.events = <<>>

\* C9: set_eligible from root with a ratio above 100 fails with InvalidRatio
\* and leaves the stored ratio as it was.
C9_OutOfRangeRefused ==
    [][(ret'.op = "set_eligible" /\ ret'.origin = "Root" /\ ret'.new > 100)
          => (ret'.result = "InvalidRatio" /\ ratio' = ratio)]_vars

\* a ratio above one hundred percent in storage
C9_Witness ==
    /\ ret.op = "set_eligible"
    /\ ret.origin = "Root"
    /\ ret.new = 150
    /\ ret.result = "Ok"
    /\ ratio = 150

\* C10: in every state reached from genesis through set_eligible calls an
\* evaluation draws no more authors than there are candidates, so no draw
\* meets an empty active list and the loop completes.
C10_NeverOverdraws ==
    Evaluated => (ret.num_eligible <= Len(potential_authors) /\ ret.result = "Ok")

\* the loop dies on the empty active list
C10_Witness ==
    /\ Evaluated
    /\ ret.result = RemainderByZero
    /\ ret.active = <<>>
    /\ ret.eligible # <<>>

=============================================================================
